---- MODULE Spec2Model ----
(***************************************************************************)
(* Model of biotite.structure.pseudoknots (src/biotite/structure/          *)
(* pseudoknots.py): region detection, conflict filtering, clustering, the  *)
(* dynamic-programming solver and the recursive order assignment.          *)
(*                                                                         *)
(* Arrays are functions with domain 0..n-1, as in the source.  A region    *)
(* object is the record of its fields start, stop and region_pairs; for    *)
(* base pairs that share no residue two regions never have equal fields,   *)
(* so record equality is object identity.                                  *)
(***************************************************************************)
EXTENDS Integers, Sequences, FiniteSets, TLC

VARIABLES base_pairs, scoring, pc, raised, regions, cleaned_regions,
          conflict_clusters, cluster_idx, results, stack, diffs

vars == <<base_pairs, scoring, pc, raised, regions, cleaned_regions,
          conflict_clusters, cluster_idx, results, stack, diffs>>

\* ------------------------------------------------------------------ bounds
\* residues are 0..MaxResidue-1
MaxResidue == 8
\* a scoring vector draws all its weights from one of these sets
WeightSets == {{1, 2}, {0, 1}, {-1, 0}, {-1, 1}}

\* ------------------------------------------------------------ array helpers
len(a) == Cardinality(DOMAIN a)

Min(S) == CHOOSE x \in S : \A y \in S : x <= y
Max(S) == CHOOSE x \in S : \A y \in S : x >= y

zeros(n) == [i \in 0..(n-1) |-> 0]
ones(n) == [i \in 0..(n-1) |-> 1]

\* np.argsort of an array of pairwise distinct integers
argsort(a) ==
    [r \in DOMAIN a |->
        CHOOSE i \in DOMAIN a : Cardinality({k \in DOMAIN a : a[k] < a[i]}) = r]

\* np.sum(a[indices]) for a sequence of positions
RECURSIVE sum_at(_, _)
sum_at(a, indices) ==
    IF indices = <<>> THEN 0 ELSE a[Head(indices)] + sum_at(a, Tail(indices))

Range(s) == {s[i] : i \in DOMAIN s}

\* ------------------------------------------------------------------ _region
\* _region.__init__: np.min / np.max over the rows base_pairs[region_pairs]
\* (only called here with a non-empty region_pairs; the empty case raises,
\* see FindRegions)
_region(bp, region_pairs) ==
    LET idx == UNION {{bp[region_pairs[k]][1], bp[region_pairs[k]][2]} :
                        k \in DOMAIN region_pairs}
    IN [start |-> Min(idx), stop |-> Max(idx), region_pairs |-> region_pairs]

\* _region.get_index_mask: the positions of the region's base pairs
get_index_mask(reg) == Range(reg.region_pairs)

\* _region.get_score: np.sum(scoring[mask]); the cache holds the same value
get_score(reg, sc) == sum_at(sc, reg.region_pairs)

\* ------------------------------------------------------------ _find_regions
\* mutant of FindLoop: a rank that differs by one in either direction
\* extends the region
RECURSIVE FindLoop_AbsRank(_, _, _, _, _, _)
FindLoop_AbsRank(bp, original_indices, downstream_rank, i, region_pairs, regs) ==
    IF i >= len(bp) THEN [region_pairs |-> region_pairs, regions |-> regs]
    ELSE IF Len(region_pairs) = 0
    THEN FindLoop_AbsRank(bp, original_indices, downstream_rank, i + 1,
                          <<original_indices[i]>>, regs)
    ELSE IF (downstream_rank[i-1] - downstream_rank[i]) \notin {1, -1}
    THEN FindLoop_AbsRank(bp, original_indices, downstream_rank, i + 1,
                          <<original_indices[i]>>,
                          regs \cup {_region(bp, region_pairs)})
    ELSE FindLoop_AbsRank(bp, original_indices, downstream_rank, i + 1,
                          Append(region_pairs, original_indices[i]), regs)

\* lines 107-124: the scan over the sorted base pairs from position i on
RECURSIVE FindLoop(_, _, _, _, _, _)
FindLoop(bp, original_indices, downstream_rank, i, region_pairs, regs) ==
    IF i >= len(bp) THEN [region_pairs |-> region_pairs, regions |-> regs]
    ELSE IF Len(region_pairs) = 0
    THEN FindLoop(bp, original_indices, downstream_rank, i + 1,
                  <<original_indices[i]>>, regs)
    ELSE IF (downstream_rank[i-1] - downstream_rank[i]) # 1
    THEN FindLoop(bp, original_indices, downstream_rank, i + 1,
                  <<original_indices[i]>>,
                  regs \cup {_region(bp, region_pairs)})
    ELSE FindLoop(bp, original_indices, downstream_rank, i + 1,
                  Append(region_pairs, original_indices[i]), regs)

\* line 91: the lower residue on the left of each row
row_sorted(bp) ==
    [i \in DOMAIN bp |->
        <<Min({bp[i][1], bp[i][2]}), Max({bp[i][1], bp[i][2]})>>]

\* line 94
original_indices(bp) == argsort([i \in DOMAIN bp |-> row_sorted(bp)[i][1]])

\* lines 95-99
downstream_rank(bp) ==
    argsort(argsort([i \in DOMAIN bp |->
                        row_sorted(bp)[original_indices(bp)[i]][2]]))

\* lines 90-124: the state of the scan when the loop ends
FindScan(bp) ==
    CHOOSE scan \in {FindLoop(bp, oi, dr, 0, <<>>, {}) :
                       oi \in {original_indices(bp)},
                       dr \in {downstream_rank(bp)}} : TRUE

\* line 128 on a non-empty final region_pairs
_find_regions(bp) ==
    LET scan == FindScan(bp)
    IN scan.regions \cup {_region(bp, scan.region_pairs)}

\* ---------------------------------------------------- _get_region_array_for
\* lines 189-207: the regions laid out by ascending start/stop index
\* (index_array sorted; the endpoints are pairwise distinct)
_get_region_array_for(regs) ==
    LET E == {r.start : r \in regs} \cup {r.stop : r \in regs}
    IN [p \in 0..(2 * Cardinality(regs) - 1) |->
          LET e == CHOOSE x \in E : Cardinality({y \in E : y < x}) = p
          IN CHOOSE r \in regs : r.start = e \/ r.stop = e]

\* the content arrays sorted by the same mask: the index held at position p
index_array_sorted(regs) ==
    LET E == {r.start : r \in regs} \cup {r.stop : r \in regs}
    IN [p \in 0..(2 * Cardinality(regs) - 1) |->
          CHOOSE x \in E : Cardinality({y \in E : y < x}) = p]

\* _get_first_occurrence_for(array[from:], wanted), as an absolute position
_get_first_occurrence_for(array, from, wanted) ==
    Min({p \in DOMAIN array : p >= from /\ array[p] = wanted})

\* mutant of NonConflictingAt: only a region with nothing between its start
\* and stop is removed
NonConflictingAt_EmptyOnly(region_array, start_index) ==
    _get_first_occurrence_for(region_array, start_index + 1,
                              region_array[start_index]) = start_index + 1

\* mutant of NonConflictingAt: np.amax in place of np.amin
NonConflictingAt_Max(region_array, start_index) ==
    LET stop_index == _get_first_occurrence_for(
                          region_array, start_index + 1, region_array[start_index])
        between == (start_index + 1)..(stop_index - 1)
        counts == {Cardinality({p \in between : region_array[p] = r}) :
                     r \in {region_array[p] : p \in between}}
    IN IF counts = {} THEN TRUE ELSE Max(counts) = 2

\* -------------------------------------------- _remove_non_conflicting_regions
\* lines 149-170: is the region starting at start_index put into to_remove
NonConflictingAt(region_array, start_index) ==
    LET stop_index == _get_first_occurrence_for(
                          region_array, start_index + 1, region_array[start_index])
        between == (start_index + 1)..(stop_index - 1)
        counts == {Cardinality({p \in between : region_array[p] = r}) :
                     r \in {region_array[p] : p \in between}}
    IN IF counts = {} THEN TRUE ELSE Min(counts) = 2

_remove_non_conflicting_regions(regs) ==
    LET region_array == _get_region_array_for(regs)
        idx == index_array_sorted(regs)
        starts == {p \in DOMAIN region_array : idx[p] = region_array[p].start}
        to_remove == {region_array[p] :
                        p \in {q \in starts : NonConflictingAt(region_array, q)}}
    IN {region_array[p] : p \in DOMAIN region_array} \ to_remove

\* ---------------------------------------------------------- _cluster_conflicts
RECURSIVE ClusterLoop(_, _, _, _, _, _)
ClusterLoop(region_array, start_stops, i, total, start, clusters) ==
    IF i >= len(region_array)
    THEN IF start < len(region_array)
         THEN Append(clusters, {region_array[p] : p \in start..(len(region_array) - 1)})
         ELSE clusters
    ELSE LET t == total + start_stops[i]
         IN IF t = 0
            THEN ClusterLoop(region_array, start_stops, i + 1, t, i + 1,
                             Append(clusters, {region_array[p] : p \in start..i}))
            ELSE ClusterLoop(region_array, start_stops, i + 1, t, start, clusters)

\* lines 223-226: +1 at the start and -1 at the stop of each region
start_stops_for(regs) ==
    [p \in 0..(2 * Cardinality(regs) - 1) |->
        IF index_array_sorted(regs)[p] = _get_region_array_for(regs)[p].start
        THEN 1 ELSE -1]

_cluster_conflicts(regs) ==
    CHOOSE clusters \in {ClusterLoop(region_array, start_stops, 0, 0, 0, <<>>) :
                           region_array \in {_get_region_array_for(regs)},
                           start_stops \in {start_stops_for(regs)}} : TRUE

\* ------------------------------------------------------ _get_optimal_solutions
\* lines 346-351: the score of one solution candidate
RECURSIVE solution_score(_, _)
solution_score(solution, sc) ==
    IF solution = {} THEN 0
    ELSE LET reg == CHOOSE r \in solution : TRUE
         IN get_score(reg, sc) + solution_score(solution \ {reg}, sc)

\* lines 301-313: lowest start and highest stop of a solution, -1 when empty
minimum(solution) ==
    IF solution = {} THEN -1 ELSE Min({r.start : r \in solution})
maximum(solution) ==
    IF solution = {} THEN -1 ELSE Max({r.stop : r \in solution})

\* np.where(start_stops == value)[0]: the positions holding value
where(start_stops, value) == {p \in DOMAIN start_stops : start_stops[p] = value}

\* dp_matrix is np.empty(..., dtype='object'): a cell not yet assigned is None,
\* modelled as a position outside the domain of dp
IsNone(dp, i, j) == <<i, j>> \notin DOMAIN dp

\* mutant of SplitRange: the range starts at the position of the lowest
\* start, not one before it
SplitRange_NoLeft(start_stops, lowest, highest) ==
    Min(where(start_stops, lowest))..Min(where(start_stops, highest))

\* lines 329-332: the split positions tried for an overlapping pair
SplitRange(start_stops, lowest, highest) ==
    (Min(where(start_stops, lowest)) - 1)..Min(where(start_stops, highest))

\* lines 321-323 for every pair of a left and a bottom solution: the pairs
\* <<highest, lowest>> that are not disjoint
Overlapping(left, bottom) ==
    {hl \in {<<maximum(solution1), minimum(solution2)>> :
               solution1 \in left, solution2 \in bottom} : ~(hl[1] < hl[2])}

\* lines 317-339: the candidates the pairs of solutions add; two pairs with
\* the same split position k add the same unions of cell(i, k) and
\* cell(k+1, j)
CrossCandidates(dp, start_stops, i, j, left, bottom) ==
    {p[1] \cup p[2] :
       p \in {q \in left \X bottom : maximum(q[1]) < minimum(q[2])}}
    \cup UNION {{subsolution1 \cup subsolution2 :
                   subsolution1 \in dp[<<i, k>>],
                   subsolution2 \in dp[<<k + 1, j>>]} :
                k \in UNION {SplitRange(start_stops, hl[2], hl[1]) :
                               hl \in Overlapping(left, bottom)}}

\* the exception lines 329-336 raise: np.where(...)[0][0] finds no position for
\* the -1 of an empty solution; iterating a cell that is None
CrossRaises(dp, start_stops, i, j, left, bottom) ==
    IF \E hl \in Overlapping(left, bottom) :
          where(start_stops, hl[2]) = {} \/ where(start_stops, hl[1]) = {}
    THEN "IndexError"
    ELSE IF \E hl \in Overlapping(left, bottom) :
               \E k \in SplitRange(start_stops, hl[2], hl[1]) :
                  IsNone(dp, i, k) \/ IsNone(dp, k + 1, j)
    THEN "TypeError"
    ELSE "none"

\* line 291: both neighbouring cells hold a non-empty solution
CrossTermApplies(left, bottom) ==
    (\E s \in left : s # {}) /\ (\E s \in bottom : s # {})

\* lines 268-359: one cell of the matrix
SolveCell(region_array, start_stops, sc, dp, i, j) ==
    LET left == dp[<<i, j - 1>>]
        bottom == dp[<<i + 1, j>>]
        same == region_array[i] = region_array[j]
        cross == CrossTermApplies(left, bottom)
        err == IF same /\ IsNone(dp, i + 1, j - 1) THEN "TypeError"
               ELSE IF cross THEN CrossRaises(dp, start_stops, i, j, left, bottom)
               ELSE "none"
        solution_candidates ==
            left \cup bottom
            \cup (IF same
                  THEN {solution \cup {region_array[i]} :
                          solution \in dp[<<i + 1, j - 1>>]}
                  ELSE {})
            \cup (IF cross
                  THEN CrossCandidates(dp, start_stops, i, j, left, bottom)
                  ELSE {})
        scores == [s \in solution_candidates |-> solution_score(s, sc)]
        amax == Max({scores[s] : s \in DOMAIN scores})
    IN IF err # "none" THEN [raised |-> err, cell |-> {}]
       ELSE [raised |-> "none",
             cell |-> {s \in DOMAIN scores : scores[s] = amax}]

\* lines 266-359: the cells in the order the loops visit them,
\* j ascending and, for each j, i from j-1 down to 0
RECURSIVE FillMatrix(_, _, _, _, _, _)
FillMatrix(region_array, start_stops, sc, dp, i, j) ==
    IF j >= len(region_array) THEN [raised |-> "none", dp |-> dp]
    ELSE IF i < 0
    THEN FillMatrix(region_array, start_stops, sc, dp, j, j + 1)
    ELSE LET c == SolveCell(region_array, start_stops, sc, dp, i, j)
         IN IF c.raised # "none" THEN [raised |-> c.raised, dp |-> dp]
            ELSE FillMatrix(region_array, start_stops, sc,
                            dp @@ (<<i, j>> :> c.cell), i - 1, j)

\* lines 249-263: the matrix with its diagonal initialised
diagonal(n) == [p \in {<<i, i>> : i \in 0..(n - 1)} |-> {{}}]

\* lines 255-362: the top right corner of the filled matrix
_get_optimal_solutions(cluster, sc) ==
    LET filled ==
          CHOOSE f \in {FillMatrix(region_array, start_stops, sc,
                                   diagonal(len(region_array)), -1, 0) :
                          region_array \in {_get_region_array_for(cluster)},
                          start_stops \in {index_array_sorted(cluster)}} : TRUE
    IN IF filled.raised # "none"
       THEN [raised |-> filled.raised, solutions |-> {}]
       ELSE [raised |-> "none",
             solutions |-> filled.dp[<<0, 2 * Cardinality(cluster) - 1>>]]

\* ------------------------------------------------------------ _get_result_diff
\* lines 377-384: the row of one optimal solution, order 1 for the base pairs
\* of the removed regions
removed_row(sc, next_cluster) ==
    LET hit == UNION {get_index_mask(reg) : reg \in next_cluster}
    IN [i \in 0..(len(sc) - 1) |-> IF i \in hit THEN 1 ELSE 0]

\* mutant of merge_rows: the rows of the next cluster replace the copy of
\* this row instead of being added to it
merge_rows_NoAdd(row, next_result_diff) == next_result_diff

\* lines 397-399: the rows of the next cluster added to a copy of this row
RECURSIVE merge_rows(_, _)
merge_rows(row, next_result_diff) ==
    IF next_result_diff = <<>> THEN <<>>
    ELSE <<[i \in DOMAIN row |-> row[i] + Head(next_result_diff)[i]]>>
         \o merge_rows(row, Tail(next_result_diff))

\* one activation of _get_result_diff
Frame(cluster) ==
    [cluster |-> cluster, phase |-> "call", optimal_solutions |-> {},
     todo |-> {}, results |-> <<>>, results_diff |-> <<>>]

\* the depth at which the interpreter's recursion limit is taken to be reached:
\* above every depth a recursion that shrinks its cluster can reach with the
\* regions of MaxResidue residues
RecursionLimit == (MaxResidue \div 2) + 1

\* --------------------------------------------------------------------- inputs
Residues == 0..(MaxResidue - 1)

\* the sets of base pairs over the residues R that share no residue
RECURSIVE Matchings(_)
Matchings(R) ==
    IF R = {} THEN {{}}
    ELSE LET a == Min(R)
         IN Matchings(R \ {a})
            \cup UNION {{{<<a, b>>} \cup m : m \in Matchings(R \ {a, b})} :
                          b \in R \ {a}}

\* the pairs of m as an array: by ascending first residue, or by descending
\* first residue with the two residues of every pair swapped
AsArray(m, order) ==
    LET n == Cardinality(m)
        asc == [i \in 0..(n - 1) |->
                  CHOOSE p \in m : Cardinality({q \in m : q[1] < p[1]}) = i]
    IN IF order = "asc" THEN asc
       ELSE [i \in 0..(n - 1) |-> <<asc[n - 1 - i][2], asc[n - 1 - i][1]>>]

\* scoring=None
NoScoring == [none |-> TRUE, v |-> <<>>]

\* a vector of another length, or a vector of equal length
ScoringVectors(n) ==
    {[none |-> FALSE, v |-> ones(k)] : k \in {n + 1} \cup ({n - 1} \cap Nat)}
    \cup {[none |-> FALSE, v |-> w] :
            w \in UNION {[0..(n - 1) -> W] : W \in WeightSets}}

\* the calls of pseudoknots: every scoring for the ascending array, the
\* default scoring for the descending one
Calls(m) ==
    {[base_pairs |-> AsArray(m, "asc"), scoring |-> sc] :
        sc \in {NoScoring} \cup ScoringVectors(Cardinality(m))}
    \cup {[base_pairs |-> AsArray(m, "desc"), scoring |-> NoScoring]}

Init ==
    /\ \E m \in Matchings(Residues) : \E call \in Calls(m) :
          /\ base_pairs = call.base_pairs
          /\ scoring = call.scoring
    /\ pc = "start"
    /\ raised = "none"
    /\ regions = {}
    /\ cleaned_regions = {}
    /\ conflict_clusters = <<>>
    /\ cluster_idx = 0
    /\ results = <<>>
    /\ stack = <<>>
    /\ diffs = <<>>

\* ---------------------------------------------------------------- pseudoknots
\* mutant of CheckScoring: the lengths are not compared
CheckScoring_NoAssert ==
    /\ pc = "start"
    /\ results' = <<zeros(len(base_pairs))>>
    /\ scoring' = IF scoring.none
                  THEN [none |-> FALSE, v |-> ones(len(base_pairs))]
                  ELSE scoring
    /\ pc' = "find_regions"
    /\ UNCHANGED <<base_pairs, raised, regions, cleaned_regions,
                   conflict_clusters, cluster_idx, stack, diffs>>

\* lines 47-55
CheckScoring ==
    /\ pc = "start"
    /\ results' = <<zeros(len(base_pairs))>>
    /\ scoring' = IF scoring.none
                  THEN [none |-> FALSE, v |-> ones(len(base_pairs))]
                  ELSE scoring
    /\ IF len(base_pairs) = len(scoring'.v)
       THEN pc' = "find_regions" /\ raised' = raised
       ELSE pc' = "raised" /\ raised' = "AssertionError"
    /\ UNCHANGED <<base_pairs, regions, cleaned_regions, conflict_clusters,
                   cluster_idx, stack, diffs>>

\* line 58; with no base pair, line 128 builds a region from an empty
\* region_pairs: indexing with the empty float array raises IndexError, and
\* np.min of an empty selection raises ValueError where the indexing passes
FindRegions ==
    /\ pc = "find_regions"
    /\ IF FindScan(base_pairs).region_pairs = <<>>
       THEN /\ pc' = "raised"
            /\ raised' \in {"IndexError", "ValueError"}
            /\ regions' = regions
       ELSE /\ pc' = "remove_non_conflicting"
            /\ raised' = raised
            /\ regions' = _find_regions(base_pairs)
    /\ UNCHANGED <<base_pairs, scoring, cleaned_regions, conflict_clusters,
                   cluster_idx, results, stack, diffs>>

\* line 61
RemoveNonConflicting ==
    /\ pc = "remove_non_conflicting"
    /\ cleaned_regions' = _remove_non_conflicting_regions(regions)
    /\ pc' = "cluster_conflicts"
    /\ UNCHANGED <<base_pairs, scoring, raised, regions, conflict_clusters,
                   cluster_idx, results, stack, diffs>>

\* line 64
ClusterConflicts ==
    /\ pc = "cluster_conflicts"
    /\ conflict_clusters' = _cluster_conflicts(cleaned_regions)
    /\ pc' = "for_cluster"
    /\ UNCHANGED <<base_pairs, scoring, raised, regions, cleaned_regions,
                   cluster_idx, results, stack, diffs>>

\* lines 67-68: the call of _get_result_diff for the next cluster
ForCluster ==
    /\ pc = "for_cluster"
    /\ cluster_idx < Len(conflict_clusters)
    /\ stack' = <<Frame(conflict_clusters[cluster_idx + 1])>>
    /\ pc' = "result_diff"
    /\ UNCHANGED <<base_pairs, scoring, raised, regions, cleaned_regions,
                   conflict_clusters, cluster_idx, results, diffs>>

\* line 70
Return ==
    /\ pc = "for_cluster"
    /\ cluster_idx = Len(conflict_clusters)
    /\ pc' = "done"
    /\ UNCHANGED <<base_pairs, scoring, raised, regions, cleaned_regions,
                   conflict_clusters, cluster_idx, results, stack, diffs>>

\* line 368 in the innermost activation
Solve ==
    /\ pc = "result_diff"
    /\ stack[Len(stack)].phase = "call"
    /\ LET top == stack[Len(stack)]
           solved == _get_optimal_solutions(top.cluster, scoring.v)
       IN IF solved.raised # "none"
          THEN /\ pc' = "raised"
               /\ raised' = solved.raised
               /\ stack' = stack
          ELSE /\ pc' = pc
               /\ raised' = raised
               /\ stack' = [stack EXCEPT ![Len(stack)] =
                              [top EXCEPT !.phase = "loop",
                                          !.optimal_solutions = solved.solutions,
                                          !.todo = solved.solutions]]
    /\ UNCHANGED <<base_pairs, scoring, regions, cleaned_regions,
                   conflict_clusters, cluster_idx, results, diffs>>

\* lines 374-402: one pass of the loop over the optimal solutions; the array
\* is built from a set and its order only orders the rows of the result, so
\* the solutions are taken in one fixed order.  A non-empty next cluster is a
\* recursive call, which fails once the recursion limit is reached
Iterate ==
    /\ pc = "result_diff"
    /\ stack[Len(stack)].phase = "loop"
    /\ stack[Len(stack)].todo # {}
    /\  LET top == stack[Len(stack)]
            optimal_solution == CHOOSE s \in top.todo : TRUE
            removed == top.cluster \ optimal_solution
            row == removed_row(scoring.v, removed)
            next_cluster == _remove_non_conflicting_regions(removed)
        IN IF next_cluster = {}
           THEN /\ stack' = [stack EXCEPT ![Len(stack)] =
                               [top EXCEPT !.todo = @ \ {optimal_solution},
                                           !.results_diff = Append(@, row)]]
                /\ pc' = pc /\ raised' = raised
           ELSE IF Len(stack) >= RecursionLimit
           THEN /\ pc' = "raised" /\ raised' = "RecursionError"
                /\ stack' = stack
           ELSE /\ stack' = Append(
                               [stack EXCEPT ![Len(stack)] =
                                  [top EXCEPT !.todo = @ \ {optimal_solution},
                                              !.phase = "wait",
                                              !.results = row]],
                               Frame(next_cluster))
                /\ pc' = pc /\ raised' = raised
    /\ UNCHANGED <<base_pairs, scoring, regions, cleaned_regions,
                   conflict_clusters, cluster_idx, results, diffs>>

\* line 405 of a recursive call, and lines 396-399 of its caller
ReturnDiff ==
    /\ pc = "result_diff"
    /\ Len(stack) > 1
    /\ stack[Len(stack)].phase = "loop"
    /\ stack[Len(stack)].todo = {}
    /\ LET next_result_diff == stack[Len(stack)].results_diff
           caller == stack[Len(stack) - 1]
       IN stack' = [SubSeq(stack, 1, Len(stack) - 1) EXCEPT ![Len(stack) - 1] =
                      [caller EXCEPT !.phase = "loop",
                                     !.results = <<>>,
                                     !.results_diff =
                                        @ \o merge_rows(caller.results,
                                                        next_result_diff)]]
    /\ UNCHANGED <<base_pairs, scoring, pc, raised, regions, cleaned_regions,
                   conflict_clusters, cluster_idx, results, diffs>>

\* line 405 of the outermost call, and the assignment of line 68
AssignResults ==
    /\ pc = "result_diff"
    /\ Len(stack) = 1
    /\ stack[1].phase = "loop"
    /\ stack[1].todo = {}
    /\ results' = stack[1].results_diff
    /\ diffs' = Append(diffs, stack[1].results_diff)
    /\ cluster_idx' = cluster_idx + 1
    /\ stack' = <<>>
    /\ pc' = "for_cluster"
    /\ UNCHANGED <<base_pairs, scoring, raised, regions, cleaned_regions,
                   conflict_clusters>>

Next ==
    \/ CheckScoring
    \/ FindRegions
    \/ RemoveNonConflicting
    \/ ClusterConflicts
    \/ ForCluster
    \/ Solve
    \/ Iterate
    \/ ReturnDiff
    \/ AssignResults
    \/ Return

Spec == Init /\ [][Next]_vars

\* ================================================================= properties
\* two regions partially overlap
Crossing(r, q) ==
    \/ r.start < q.start /\ q.start < r.stop /\ r.stop < q.stop
    \/ q.start < r.start /\ r.start < q.stop /\ q.stop < r.stop

NonCrossing(S) == \A r, q \in S : ~Crossing(r, q)

\* base pairs (i, j) and (k, l) with i < k < j < l
PairsCross(p, q) ==
    /\ Min({p[1], p[2]}) < Min({q[1], q[2]})
    /\ Min({q[1], q[2]}) < Max({p[1], p[2]})
    /\ Max({p[1], p[2]}) < Max({q[1], q[2]})

\* the columns of a row that hold order n
ColumnsAt(row, n) == {i \in DOMAIN row : row[i] = n}

\* the columns of the base pairs of a set of regions
ColumnsOf(regs) == UNION {get_index_mask(r) : r \in regs}

\* the order a row gives to a region (all its base pairs hold the same)
OrderIn(row, reg) == row[reg.region_pairs[1]]

\* brute force: the pairwise non-crossing subsets of a cluster, their best
\* score, and the subsets that attain it
CrossingFree(cluster) == {S \in SUBSET cluster : NonCrossing(S)}
BestScore(cluster, sc) ==
    Max({solution_score(S, sc) : S \in CrossingFree(cluster)})
BruteOptimal(cluster, sc) ==
    {S \in CrossingFree(cluster) : solution_score(S, sc) = BestScore(cluster, sc)}

\* the call was made with a scoring vector of equal length, or with none
EqualLength == scoring.none \/ len(scoring.v) = len(base_pairs)
Positive == \A i \in DOMAIN scoring.v : scoring.v[i] > 0

\* the innermost activation of _get_result_diff once its solver has returned
Solved == stack # <<>> /\ stack[Len(stack)].phase # "call"
Top == stack[Len(stack)]

\* the solver raised in the innermost activation
SolverRaised ==
    pc = "raised" /\ stack # <<>> /\ stack[Len(stack)].phase = "call"

\* C1: with two or more clusters the returned matrix is the cross-product
\* merge of the clusters' rows: every choice of one row per cluster appears,
\* on each cluster's columns, in some returned row, and the number of rows is
\* the product of the clusters' row counts (stated for positive weights)
RECURSIVE RowProduct(_)
RowProduct(ds) == IF ds = <<>> THEN 1 ELSE Len(Head(ds)) * RowProduct(Tail(ds))

C1_CrossProductMerge ==
    (pc = "done" /\ Len(conflict_clusters) >= 2 /\ Positive) =>
        /\ Len(results) = RowProduct(diffs)
        /\ \A choice \in {f \in [DOMAIN diffs -> 1..RowProduct(diffs)] :
                            \A c \in DOMAIN diffs : f[c] <= Len(diffs[c])} :
              \E o \in DOMAIN results :
                 \A c \in DOMAIN diffs :
                    \A i \in ColumnsOf(conflict_clusters[c]) :
                       results[o][i] = diffs[c][choice[c]][i]

\* C2: in every returned row the base pairs of order 0 are pairwise
\* non-crossing, whatever the number of clusters (stated for positive weights)
C2_OrderZeroPlanar ==
    (pc = "done" /\ Positive) =>
        \A o \in DOMAIN results :
           \A i, k \in ColumnsAt(results[o], 0) :
              ~PairsCross(base_pairs[i], base_pairs[k])

\* C3: every subset the solver returns is pairwise non-crossing and scores
\* at least as much as every pairwise non-crossing subset of the cluster
C3_SolverOptimal ==
    Solved =>
        \A S \in Top.optimal_solutions :
           /\ S \subseteq Top.cluster
           /\ NonCrossing(S)
           /\ \A T \in CrossingFree(Top.cluster) :
                 solution_score(T, scoring.v) <= solution_score(S, scoring.v)

\* C3 witness: a solved cluster of three or more regions with unequal weights,
\* an optimum of two or more regions and a non-crossing subset that is no
\* part of it and scores less
C3_Witness ==
    /\ Solved
    /\ Cardinality(Top.cluster) >= 3
    /\ \E i, k \in DOMAIN scoring.v : scoring.v[i] # scoring.v[k]
    /\ \E S \in Top.optimal_solutions :
          /\ Cardinality(S) >= 2
          /\ \E T \in CrossingFree(Top.cluster) :
                /\ ~(T \subseteq S)
                /\ solution_score(T, scoring.v) < solution_score(S, scoring.v)
                /\ solution_score(T, scoring.v) > 0

\* whenever the solver returns, no tied optimum is missing from what it
\* returns, and once the loop over the solutions has ended each of them has
\* a row of its own
ReturnedTiesComplete ==
    Solved =>
        /\ BruteOptimal(Top.cluster, scoring.v) \subseteq Top.optimal_solutions
        /\ Top.todo = {} =>
              \A S \in Top.optimal_solutions :
                 \E o \in DOMAIN Top.results_diff :
                    ColumnsAt(Top.results_diff[o], 0) \cap ColumnsOf(Top.cluster)
                       = ColumnsOf(S)

\* C4: for every cluster the solver returns every pairwise non-crossing subset
\* that attains the maximum score, and each of them yields a row of its own
C4_TieComplete == ~SolverRaised /\ ReturnedTiesComplete

\* C5: a call with a non-empty base-pair list and a scoring vector of equal
\* length ends with a result, and every recursive call of _get_result_diff is
\* made on a proper subset of its caller's cluster
C5_Terminates ==
    (len(base_pairs) > 0 /\ EqualLength) =>
        /\ pc # "raised"
        /\ \A d \in DOMAIN stack :
              d > 1 => /\ stack[d].cluster \subseteq stack[d - 1].cluster
                       /\ stack[d].cluster # stack[d - 1].cluster

\* C6: a call with no base pair, and no or an empty scoring vector, does not
\* fail and returns one row of length 0
C6_EmptyInput ==
    (len(base_pairs) = 0 /\ EqualLength) =>
        /\ pc # "raised"
        /\ pc = "done" => results = <<zeros(0)>>

\* C7: for a non-empty list in which no two base pairs cross, the filter
\* leaves no region, no cluster is solved and the result is one all-zero row
NoPairsCross ==
    \A i, k \in DOMAIN base_pairs : ~PairsCross(base_pairs[i], base_pairs[k])

C7_NoConflict ==
    (len(base_pairs) > 0 /\ EqualLength /\ NoPairsCross) =>
        /\ cleaned_regions = {}
        /\ conflict_clusters = <<>>
        /\ stack = <<>>
        /\ pc \notin {"result_diff", "raised"}
        /\ pc = "done" => results = <<zeros(len(base_pairs))>>

\* C7 witness: the call returned for nested and side-by-side pairs that form
\* three or more regions
C7_Witness ==
    /\ pc = "done"
    /\ NoPairsCross
    /\ Cardinality(regions) >= 3
    /\ \E r, q \in regions : r.start < q.start /\ q.stop < r.stop
    /\ \E r, q \in regions : r.stop < q.start

\* C8: a scoring vector of another length fails the call before any region is
\* built and nothing is returned; with equal lengths the check does not fail
Mismatch == ~scoring.none /\ len(scoring.v) # len(base_pairs)

C8_LengthCheck ==
    /\ Mismatch =>
          /\ pc \in {"start", "raised"}
          /\ pc = "raised" => raised = "AssertionError"
          /\ regions = {} /\ cleaned_regions = {}
          /\ conflict_clusters = <<>> /\ stack = <<>>
    /\ ~Mismatch => raised # "AssertionError"

\* C8 witness: the call failed on a vector one weight short
C8_Witness ==
    /\ pc = "raised"
    /\ raised = "AssertionError"
    /\ len(base_pairs) >= 2
    /\ len(scoring.v) = len(base_pairs) - 1

\* C9: with positive weights, in every row of every activation of
\* _get_result_diff two regions of its cluster that hold the same order do
\* not cross
C9_LevelsPlanar ==
    Positive =>
        \A d \in DOMAIN stack :
           \A o \in DOMAIN stack[d].results_diff :
              \A r, q \in stack[d].cluster :
                 OrderIn(stack[d].results_diff[o], r)
                    = OrderIn(stack[d].results_diff[o], q) => ~Crossing(r, q)

\* C9 witness: a row of the outermost activation in which a region dropped by
\* the filter holds order 1 beside a region the next pass selected, and a
\* region crossing that one holds order 2
C9_Witness ==
    /\ Positive
    /\ stack # <<>>
    /\ \E o \in DOMAIN stack[1].results_diff :
          \E r, q, t \in stack[1].cluster :
             /\ OrderIn(stack[1].results_diff[o], r) = 1
             /\ OrderIn(stack[1].results_diff[o], q) = 1
             /\ OrderIn(stack[1].results_diff[o], t) = 2
             /\ Crossing(r, t)
             /\ ~Crossing(q, r) /\ ~Crossing(q, t)

\* C10: the filter removes a region exactly when every other region with an
\* event strictly inside its span has both events inside it, so the regions
\* that survive are exactly those that cross another region of the set
EventInside(R, Q) ==
    \/ R.start < Q.start /\ Q.start < R.stop
    \/ R.start < Q.stop /\ Q.stop < R.stop

BothInside(R, Q) == R.start < Q.start /\ Q.stop < R.stop

Removable(R, regs) ==
    \A Q \in regs \ {R} : EventInside(R, Q) => BothInside(R, Q)

CrossingOnes(regs) == {R \in regs : \E Q \in regs : Crossing(R, Q)}

\* the regions the waiting activation d removed in its current pass
RemovedAt(d) ==
    {r \in stack[d].cluster : OrderIn(stack[d].results, r) = 1}

PairInside(p, q) ==
    /\ Min({q[1], q[2]}) < Min({p[1], p[2]})
    /\ Max({p[1], p[2]}) < Max({q[1], q[2]})

\* C11: for a non-empty base-pair list the regions _find_regions returns
\* partition the base-pair positions: every position is a member of exactly
\* one region and occurs once in it, two members of a region are strictly
\* nested one inside the other, and start < stop in every region
C11_RegionsPartition ==
    (len(base_pairs) > 0 /\ ~Mismatch /\ pc \notin {"start", "find_regions"}) =>
        /\ \A i \in DOMAIN base_pairs :
              Cardinality({r \in regions : i \in get_index_mask(r)}) = 1
        /\ \A r \in regions :
              /\ get_index_mask(r) \subseteq DOMAIN base_pairs
              /\ Len(r.region_pairs) = Cardinality(get_index_mask(r))
              /\ r.start < r.stop
              /\ \A i, k \in get_index_mask(r) :
                    i # k => \/ PairInside(base_pairs[i], base_pairs[k])
                             \/ PairInside(base_pairs[k], base_pairs[i])

\* C11 witness: _find_regions returned three or more regions for an array
\* given with the higher residue first, one region has two or more members,
\* and a base pair lies inside a base pair of another region
C11_Witness ==
    /\ pc = "remove_non_conflicting"
    /\ Cardinality(regions) >= 3
    /\ \E i \in DOMAIN base_pairs : base_pairs[i][1] > base_pairs[i][2]
    /\ \E r \in regions : Len(r.region_pairs) >= 2
    /\ \E r, q \in regions :
          /\ r # q
          /\ \E i \in get_index_mask(r), k \in get_index_mask(q) :
                PairInside(base_pairs[i], base_pairs[k])

====
